---- MODULE Spec2Model ----
(***************************************************************************)
(* Model of pymc/distributions/logprob.py: the minibatch scaling           *)
(* coefficient (_get_scaling), the joint log-density compiler (logpt), the *)
(* log-CDF compiler (logcdfpt) and the tagging entry points (logp,         *)
(* logcdf).                                                                *)
(*                                                                         *)
(* Tensors are modelled by their numeric content over exact rationals      *)
(* (floatX rounding is not modelled).  Python values of different types    *)
(* are records with a type field "t".                                      *)
(***************************************************************************)
EXTENDS Integers, Sequences, FiniteSets, TLC

VARIABLES
    value_var,     \* node -> var.tag.value_var, or NoTag when the attribute is absent
    observations,  \* node -> var.tag.observations, or NoTag
    total_size,    \* node -> var.tag.total_size as a Python value; PyNone when absent
    pc,            \* position of the caller: "idle", "done" (a call returned), "redone"
    last,          \* what the caller holds of the call that just returned
    sc_in,         \* arguments of a direct _get_scaling call
    sc_out         \* its outcome

vars == <<value_var, observations, total_size, pc, last, sc_in, sc_out>>

----------------------------------------------------------------------------
(* Exact rationals: n/d with d > 0, in lowest terms.                       *)

Abs(x) == IF x < 0 THEN -x ELSE x

RECURSIVE GCD(_, _)
GCD(a, b) == IF b = 0 THEN a ELSE GCD(b, a % b)

Frac(n, d) ==
    LET g == GCD(Abs(n), Abs(d))
        s == IF d < 0 THEN -1 ELSE 1
    IN  [n |-> s * (n \div g), d |-> s * (d \div g)]

FInt(k) == [n |-> k, d |-> 1]
FAdd(a, b) == Frac(a.n * b.d + b.n * a.d, a.d * b.d)
FMul(a, b) == Frac(a.n * b.n, a.d * b.d)
FDiv(a, k) == Frac(a.n, a.d * k)

RECURSIVE FProd(_)
FProd(s) == IF s = <<>> THEN FInt(1) ELSE FMul(Head(s), FProd(Tail(s)))

----------------------------------------------------------------------------
(* Python values that total_size can hold.                                 *)

PyNone     == [t |-> "none"]
PyEllipsis == [t |-> "ellipsis"]
PyInt(k)   == [t |-> "int", v |-> k]
PyStr      == [t |-> "str"]
PyFloat    == [t |-> "float"]
PySeq(s)   == [t |-> "seq", items |-> s]

Ok(c)      == [ok |-> TRUE, coef |-> c]
Raise(e)   == [ok |-> FALSE, err |-> e]

\* [x for i, x in enumerate(s) if pred]: positions are kept by enumerate
RECURSIVE CoefList(_, _, _)
CoefList(part, shp, i) ==
    IF i > Len(part) THEN <<>>
    ELSE IF part[i].t = "none" THEN CoefList(part, shp, i + 1)
    ELSE <<FDiv(FInt(part[i].v), shp[i])>> \o CoefList(part, shp, i + 1)

ShpEnd_FromFront(shape, end) == SubSeq(shape, 1, Len(end))

\* shape[-len(end):] when end is not empty, an empty array otherwise
ShpEnd(shape, end) == SubSeq(shape, Len(shape) - Len(end) + 1, Len(shape))

TooManyScalings_OffByOne(begin, end, ndim) == Len(begin) + Len(end) >= ndim

\* (len(begin) + len(end)) > ndim
TooManyScalings(begin, end, ndim) == Len(begin) + Len(end) > ndim

IndexOfEllipsis(s) == CHOOSE i \in 1..Len(s) :
    s[i].t = "ellipsis" /\ \A j \in 1..(i - 1) : s[j].t # "ellipsis"

HasEllipsis(s) == \E i \in 1..Len(s) : s[i].t = "ellipsis"

_get_scaling(ts, shape, ndim) ==
    IF ts.t = "none" THEN Ok(FInt(1))
    ELSE IF ts.t = "int" THEN
        LET denom == IF ndim >= 1 THEN shape[1] ELSE 1
        IN  Ok(FDiv(FInt(ts.v), denom))
    ELSE IF ts.t = "seq" THEN
        LET s == ts.items IN
        IF \E i \in 1..Len(s) : s[i].t \notin {"int", "none", "ellipsis"}
        THEN Raise("TypeError")
        ELSE
          LET sep   == IF HasEllipsis(s) THEN IndexOfEllipsis(s) ELSE Len(s) + 1
              begin == SubSeq(s, 1, sep - 1)
              end   == SubSeq(s, sep + 1, Len(s))
          IN
          IF HasEllipsis(end) THEN Raise("ValueError")
          ELSE IF TooManyScalings(begin, end, ndim) THEN Raise("ValueError")
          ELSE IF Len(begin) + Len(end) = 0 THEN Ok(FInt(1))
          ELSE
            LET shp_end    == ShpEnd(shape, end)
                shp_begin  == SubSeq(shape, 1, Len(begin))
                begin_coef == CoefList(begin, shp_begin, 1)
                end_coef   == CoefList(end, shp_end, 1)
                coefs      == begin_coef \o end_coef
            IN  Ok(FProd(coefs))
    ELSE Raise("TypeError")

----------------------------------------------------------------------------
(* The computation graph the calls are made on.  Y is a random variable    *)
(* with the random variable P among its distribution parameters, Z is an   *)
(* independent random variable, D is a deterministic function of Y and Z.  *)

Nodes   == {"P", "Y", "Z", "D"}
RVNodes == {"P", "Y", "Z"}          \* isinstance(var.owner.op, RandomVariable)

Parents(n) == CASE n = "Y" -> {"P"}
                [] n = "D" -> {"Y", "Z"}
                [] OTHER   -> {}

TopoOrder == <<"P", "Y", "Z", "D">>

NoTag == "<absent>"

\* Value variables: the ones tagged on P, Y, Z, the observed data of Z, a
\* variable made by the caller, and the constants made from a Python number:
\* every conversion makes a new constant, and variables compare by identity,
\* so the constant a call makes for its argument ("c") is another variable
\* than the constant that logp or logcdf attached to the tag ("t").
RawValues  == {"2.0"}
TaggedVars == {"vP", "vY", "vZ", "oZ"}
CallerVars == {"w1"}
Constants_ == {"c2.0", "t2.0"}
ValueVars  == TaggedVars \cup CallerVars \cup Constants_

\* at.as_tensor_variable: a variable is returned as it is (its dtype is taken
\* to be the target's), a Python number becomes a new constant
as_tensor_variable(x, made_for) == IF x \in RawValues THEN made_for \o x ELSE x

\* x.shape (and x.ndim = Len(ShapeOf(x)))
ShapeOf(x) == IF x \in Constants_ THEN <<>> ELSE <<2>>
NdimOf(x)  == Len(ShapeOf(x))

\* hasattr(x.tag, "transform") and x.tag.transform
NoTransform == "<none>"
TransformOf(x) == CASE x = "vP" -> "log"
                    [] x = "vY" -> "logodds"
                    [] OTHER    -> NoTransform

\* var.name
NoName == [kind |-> "none", of |-> ""]
NameOf(n) == IF n = "Z" THEN NoName ELSE [kind |-> "name", of |-> n]

----------------------------------------------------------------------------
(* Tensors: nd = 0 is a scalar (one entry), nd = 1 a vector.               *)

Tensor(nd, data) == [nd |-> nd, data |-> data]

RECURSIVE FSumSeq(_)
FSumSeq(s) == IF s = <<>> THEN FInt(0) ELSE FAdd(Head(s), FSumSeq(Tail(s)))

at_sum(x) == Tensor(0, <<FSumSeq(x.data)>>)

at_mul(x, c) == Tensor(x.nd, [i \in 1..Len(x.data) |-> FMul(x.data[i], c)])

\* elementwise addition, a scalar broadcasts
at_add2(x, y) ==
    IF x.nd = y.nd THEN Tensor(x.nd, [i \in 1..Len(x.data) |-> FAdd(x.data[i], y.data[i])])
    ELSE IF x.nd = 0 THEN Tensor(y.nd, [i \in 1..Len(y.data) |-> FAdd(x.data[1], y.data[i])])
    ELSE Tensor(x.nd, [i \in 1..Len(x.data) |-> FAdd(x.data[i], y.data[1])])

\* the values of a dict, in some order
RECURSIVE DictValues(_)
DictValues(d) ==
    IF DOMAIN d = {} THEN <<>>
    ELSE LET k == CHOOSE k \in DOMAIN d : TRUE
         IN  <<d[k]>> \o DictValues([j \in DOMAIN d \ {k} |-> d[j]])

RECURSIVE at_add(_)
at_add(s) == IF Len(s) = 1 THEN s[1] ELSE at_add2(s[1], at_add(Tail(s)))

EmptyDict == [k \in {} |-> k]
Range(d)  == {d[k] : k \in DOMAIN d}
DictSet(d, k, v) == [j \in DOMAIN d \cup {k} |-> IF j = k THEN v ELSE d[j]]

----------------------------------------------------------------------------
(* logpt                                                                   *)

TagValue_ValueVarFirst(vv, n, default) ==
    IF vv[n] # NoTag THEN vv[n]
    ELSE IF observations[n] # NoTag THEN observations[n]
    ELSE default

\* getattr(var.tag, "observations", getattr(var.tag, "value_var", default))
TagValue(vv, n, default) ==
    IF observations[n] # NoTag THEN observations[n]
    ELSE IF vv[n] # NoTag THEN vv[n]
    ELSE default

\* if not isinstance(var, list): var = [var]
AsList(var) == IF var.t = "list" THEN var.items ELSE <<var.v>>

\* rv_values is None: every random variable of the list REPLACES the dict
RECURSIVE DefaultRvValues(_, _, _, _)
DefaultRvValues(vv, var, i, acc) ==
    IF i > Len(var) THEN acc
    ELSE IF var[i] \in RVNodes
         THEN DefaultRvValues(vv, var, i + 1, (var[i] :> TagValue(vv, var[i], var[i])))
         ELSE DefaultRvValues(vv, var, i + 1, acc)

NormalizeRvValues(vv, var, rv_values) ==
    IF rv_values.t = "none" THEN DefaultRvValues(vv, var, 1, EmptyDict)
    ELSE IF rv_values.t = "value"
         THEN IF Len(var) = 1 THEN (var[1] :> as_tensor_variable(rv_values.v, "c")) ELSE EmptyDict
    ELSE rv_values.m

\* the rv_scalings loop; a raising _get_scaling ends the call
RECURSIVE RvScalings(_, _, _, _)
RvScalings(vv, var, i, acc) ==
    IF i > Len(var) THEN [ok |-> TRUE, m |-> acc]
    ELSE LET rv_value_var == TagValue(vv, var[i], var[i])
             c == _get_scaling(total_size[var[i]], ShapeOf(rv_value_var), NdimOf(rv_value_var))
         IN  IF c.ok THEN RvScalings(vv, var, i + 1, DictSet(acc, rv_value_var, c.coef))
             ELSE [ok |-> FALSE, err |-> c.err]

\* graph_inputs / io_toposort: the nodes the targets depend on, dependencies first
RECURSIVE Ancestors(_)
Ancestors(S) ==
    LET T == S \cup UNION {Parents(n) : n \in S}
    IN  IF T = S THEN S ELSE Ancestors(T)

io_toposort(var) == SelectSeq(TopoOrder, LAMBDA n : n \in Ancestors(Range(var)))

TransformKey_Tagged(rv_value, rv_value_var) == rv_value_var

\* transform_map[rv_value] = rv_value_var.tag.transform: the key is the value
\* that went into the value map
TransformKey(rv_value, rv_value_var) == rv_value

\* the discovery loop over the sorted nodes
RECURSIVE Discover(_, _, _, _, _, _)
Discover(vv, rv_values, nodes, transformed, i, acc) ==
    IF i > Len(nodes) THEN acc
    ELSE LET curr_var     == nodes[i]
             rv_value_var == TagValue(vv, curr_var, NoTag)
         IN  IF rv_value_var = NoTag
             THEN Discover(vv, rv_values, nodes, transformed, i + 1, acc)
             ELSE LET rv_value == IF curr_var \in DOMAIN rv_values
                                  THEN rv_values[curr_var] ELSE rv_value_var
                      tm == IF TransformOf(rv_value_var) # NoTransform /\ transformed
                            THEN DictSet(acc.transform_map, TransformKey(rv_value, rv_value_var),
                                         TransformOf(rv_value_var))
                            ELSE acc.transform_map
                  IN  Discover(vv, rv_values, nodes, transformed, i + 1,
                               [tmp_rvs_to_values |-> DictSet(acc.tmp_rvs_to_values, curr_var, rv_value),
                                transform_map |-> tm])

\* Stand-in for aeppl's factorized_joint_logprob: one elementwise term for
\* every value of the map, named after the value; the numbers stand for the
\* densities, the Jacobian term is added for a transformed value.
BaseOf(x) == CASE x = "vP" -> 1    [] x = "vY" -> 5     [] x = "vZ" -> 25
               [] x = "oZ" -> 125  [] x = "w1" -> 625   [] x \in Constants_ -> 3125
               [] x = "P" -> 15625 [] x = "Y" -> 78125  [] x = "Z" -> 390625
               [] OTHER -> 1953125

Density(x, jac) ==
    LET j == IF jac THEN 2 ELSE 0
    IN  IF NdimOf(x) = 0 THEN Tensor(0, <<FInt(BaseOf(x) + j)>>)
        ELSE Tensor(1, <<FInt(BaseOf(x) + j), FInt(3 * BaseOf(x) + j)>>)

factorized_joint_logprob(tmp_rvs_to_values, transform_map, use_jacobian) ==
    [v \in Range(tmp_rvs_to_values) |->
        [term |-> Density(v, use_jacobian /\ v \in DOMAIN transform_map),
         name |-> [kind |-> "logprob", of |-> v]]]

Reduce_FirstOnly(logp_var_dict, sum) ==
    LET d == DictValues(logp_var_dict)[1]
    IN  IF sum THEN [term |-> at_sum(d.term), name |-> NoName] ELSE d

\* the reduction of the retained terms
Reduce(logp_var_dict, sum) ==
    IF Cardinality(DOMAIN logp_var_dict) = 1
    THEN LET d == DictValues(logp_var_dict)[1]
         IN  IF sum THEN [term |-> at_sum(d.term), name |-> NoName] ELSE d
    ELSE IF sum
         THEN [term |-> at_sum(Tensor(1, [i \in 1..Cardinality(DOMAIN logp_var_dict) |->
                                  at_sum(DictValues(logp_var_dict)[i].term).data[1]])),
               name |-> NoName]
         ELSE [term |-> at_add([i \in 1..Cardinality(DOMAIN logp_var_dict) |->
                                  DictValues(logp_var_dict)[i].term]),
               name |-> NoName]

NoneVar == [term |-> Tensor(0, <<>>), name |-> NoName]

FilterRequested_KeepAll(temp_logp_var_dict, rv_values) == DOMAIN temp_logp_var_dict

\* keep the terms of the values that are in rv_values.values()
FilterRequested(temp_logp_var_dict, rv_values) ==
    {v \in DOMAIN temp_logp_var_dict : v \in Range(rv_values)}

FinalLogpVar_Named(var, logp_var_dict, sum) ==
    IF DOMAIN logp_var_dict = {} THEN NoneVar
    ELSE IF Len(var) = 1 /\ NameOf(var[1]) # NoName
         THEN [term |-> Reduce(logp_var_dict, sum).term,
               name |-> [kind |-> "__logp_", of |-> NameOf(var[1]).of]]
         ELSE Reduce(logp_var_dict, sum)

\* the value returned: None for an empty dict, else the reduction; no name
\* is assigned
FinalLogpVar(var, logp_var_dict, sum) ==
    IF DOMAIN logp_var_dict = {} THEN NoneVar ELSE Reduce(logp_var_dict, sum)

logpt(vv, var_in, rv_values_in, flags) ==
    LET var        == AsList(var_in)
        rv_values  == NormalizeRvValues(vv, var, rv_values_in)
        scal       == IF flags.scaling THEN RvScalings(vv, var, 1, EmptyDict)
                      ELSE [ok |-> TRUE, m |-> EmptyDict]
        disc       == Discover(vv, rv_values, io_toposort(var), flags.transformed, 1,
                               [tmp_rvs_to_values |-> rv_values, transform_map |-> EmptyDict])
        temp_logp_var_dict ==
            factorized_joint_logprob(disc.tmp_rvs_to_values, disc.transform_map, flags.jacobian)
        kept       == FilterRequested(temp_logp_var_dict, rv_values)
        rv_scalings == scal.m
        logp_var_dict ==
            [v \in kept |->
                IF flags.scaling /\ v \in DOMAIN rv_scalings
                THEN [term |-> at_mul(temp_logp_var_dict[v].term, rv_scalings[v]),
                      name |-> NoName]
                ELSE temp_logp_var_dict[v]]
    IN  IF ~scal.ok
        THEN [err |-> scal.err, var |-> var, rv_values |-> rv_values,
              tmp_rvs_to_values |-> EmptyDict, transform_map |-> EmptyDict,
              temp_keys |-> {}, logp_var_dict |-> EmptyDict,
              is_none |-> TRUE, logp_var |-> NoneVar]
        ELSE [err |-> "", var |-> var, rv_values |-> rv_values,
              tmp_rvs_to_values |-> disc.tmp_rvs_to_values,
              transform_map |-> disc.transform_map,
              temp_keys |-> DOMAIN temp_logp_var_dict,
              logp_var_dict |-> logp_var_dict,
              is_none |-> (kept = {}),
              logp_var |-> FinalLogpVar(var, logp_var_dict, flags.sum)]

----------------------------------------------------------------------------
(* logcdfpt                                                                *)

\* pymc.aesaraf.extract_rv_and_value_vars: the random variable and the value
\* tagged on it, (None, None) for anything else
extract_rv_and_value_vars(vv, var) ==
    IF var \in RVNodes THEN [rv_var |-> var, rv_value_var |-> TagValue(vv, var, NoTag)]
    ELSE [rv_var |-> NoTag, rv_value_var |-> NoTag]

\* the operators a log-CDF is registered for on the _logcdf dispatcher
LogcdfRegistered == {"P", "Y"}

CdfErr(e) == [err |-> e, is_none |-> TRUE, logp_var |-> NoneVar]

logcdfpt(vv, var, rv_values_in, flags) ==
    LET rv_values == IF rv_values_in.t = "map" THEN rv_values_in.m
                     ELSE IF rv_values_in.t = "value" THEN (var :> rv_values_in.v)
                     ELSE EmptyDict
        ex        == extract_rv_and_value_vars(vv, var)
        rv_var    == ex.rv_var
        rv_value0 == IF rv_var \in DOMAIN rv_values THEN rv_values[rv_var] ELSE ex.rv_value_var
        rv_value  == as_tensor_variable(rv_value0, "c")
        cdf       == Density(rv_value, FALSE)
        summed    == IF flags.sum THEN at_sum(cdf) ELSE cdf
        c         == _get_scaling(total_size[rv_var], ShapeOf(rv_value), NdimOf(rv_value))
    IN  IF rv_var = NoTag THEN CdfErr("AttributeError")
        ELSE IF rv_value0 = NoTag THEN CdfErr("ValueError")
        ELSE IF NdimOf(rv_value) # NdimOf(rv_var) THEN CdfErr("TypeError")
        ELSE IF rv_var \notin LogcdfRegistered THEN CdfErr("NotImplementedError")
        ELSE IF flags.scaling /\ ~c.ok THEN CdfErr(c.err)
        ELSE [err |-> "", is_none |-> FALSE,
              logp_var |-> [term |-> IF flags.scaling THEN at_mul(summed, c.coef) ELSE summed,
                            name |-> IF NameOf(rv_var) # NoName
                                     THEN [kind |-> "__logp_", of |-> NameOf(rv_var).of]
                                     ELSE NoName]]

----------------------------------------------------------------------------
(* logp and logcdf: tag the target when it has no value_var, then compile. *)

\* the tags after the "if not hasattr(var.tag, 'value_var')" block;
\* rv_values[var] raises KeyError when the mapping has no entry for var
TagKeyError(vv, var, rv_values_in) ==
    vv[var] = NoTag /\ rv_values_in.t = "map" /\ var \notin DOMAIN rv_values_in.m

AttachValueVar_Always(vv, var, rv_values_in) ==
    LET value_var_ == IF rv_values_in.t = "map" THEN rv_values_in.m[var]
                      ELSE rv_values_in.v
    IN  IF rv_values_in.t = "map" /\ var \notin DOMAIN rv_values_in.m THEN vv
        ELSE [vv EXCEPT ![var] = as_tensor_variable(value_var_, "t")]

AttachValueVar(vv, var, rv_values_in) ==
    IF vv[var] # NoTag THEN vv
    ELSE LET value_var_ == IF rv_values_in.t = "map" THEN rv_values_in.m[var]
                           ELSE rv_values_in.v
         IN  [vv EXCEPT ![var] = as_tensor_variable(value_var_, "t")]

KeyErrorOut == [err |-> "KeyError", is_none |-> TRUE, logp_var |-> NoneVar]

logp(vv, var, rv_values_in, flags) ==
    IF TagKeyError(vv, var, rv_values_in) THEN [tags |-> vv, out |-> KeyErrorOut]
    ELSE LET vv2 == AttachValueVar(vv, var, rv_values_in)
         IN  [tags |-> vv2, out |-> logpt(vv2, [t |-> "var", v |-> var], rv_values_in, flags)]

logcdf(vv, var, rv_values_in, flags) ==
    IF TagKeyError(vv, var, rv_values_in) THEN [tags |-> vv, out |-> KeyErrorOut]
    ELSE LET vv2 == AttachValueVar(vv, var, rv_values_in)
         IN  [tags |-> vv2, out |-> logcdfpt(vv2, var, rv_values_in, flags)]

----------------------------------------------------------------------------
(* The callers' arguments.                                                 *)

Var(n)   == [t |-> "var", v |-> n]
List(s)  == [t |-> "list", items |-> s]
NoValues == [t |-> "none"]
Value(v) == [t |-> "value", v |-> v]
Map(m)   == [t |-> "map", m |-> m]

VarInputs == {Var("Y"), Var("D"), List(<<"P">>), List(<<"P", "Y">>), List(<<"Y", "Z">>)}

\* every mapping that gives P nothing or vP, Y nothing, vY or the caller's w1,
\* and Z nothing or w1; and one that gives Y the value of P
MapChoices(n) == CASE n = "P" -> {NoTag, "vP"}
                   [] n = "Y" -> {NoTag, "vY", "w1"}
                   [] OTHER   -> {NoTag, "w1"}

Mappings ==
    {[n \in {k \in RVNodes : f[k] # NoTag} |-> f[n]] :
        f \in {g \in [RVNodes -> {NoTag, "vP", "vY", "vZ", "w1"}] :
                  \A n \in RVNodes : g[n] \in MapChoices(n)}}
    \cup {("Y" :> "vP")}

RvInputs == {NoValues, Value("w1"), Value("2.0")} \cup {Map(m) : m \in Mappings}

Flags == [jacobian : BOOLEAN, scaling : BOOLEAN, transformed : BOOLEAN, sum : BOOLEAN]
CdfFlags == [scaling : BOOLEAN, sum : BOOLEAN]

\* logp and logcdf are called on one variable with a value or a mapping
EntryCalls == {[var |-> "Y", rv |-> Value("w1")],
               [var |-> "Y", rv |-> Value("2.0")],
               [var |-> "Y", rv |-> Map(("Y" :> "vY"))],
               [var |-> "Y", rv |-> Map(("P" :> "vP"))],
               [var |-> "Z", rv |-> Value("w1")],
               [var |-> "Z", rv |-> Map(("P" :> "vP") @@ ("Z" :> "w1"))]}

\* logcdfpt is also called without a value, and on a deterministic variable
CdfCalls == EntryCalls \cup {[var |-> "Y", rv |-> NoValues], [var |-> "P", rv |-> NoValues],
                             [var |-> "D", rv |-> Value("w1")]}

\* the total_size tagged on Y: valid, or with more entries than Y has axes
YTotalSizes == {PyInt(6), PySeq(<<PyInt(6), PyInt(6)>>)}

NoCall == [op |-> "none"]
NoScaling == [ts |-> PyNone, shape |-> <<>>]

Init ==
    /\ value_var \in {f \in [Nodes -> {NoTag, "vP", "vY", "vZ"}] :
                        /\ f["D"] = NoTag /\ f["Z"] = NoTag /\ f["P"] = "vP"
                        /\ f["Y"] \in {NoTag, "vY"}}
    /\ observations \in {f \in [Nodes -> {NoTag, "oZ"}] : \A n \in Nodes \ {"Z"} : f[n] = NoTag}
    /\ total_size \in {f \in [Nodes -> YTotalSizes \cup {PyNone, PySeq(<<PyInt(3), PyEllipsis>>)}] :
                        /\ f["P"] = PyNone /\ f["D"] = PyNone
                        /\ f["Z"] = PySeq(<<PyInt(3), PyEllipsis>>) /\ f["Y"] \in YTotalSizes}
    /\ pc = "idle"
    /\ last = NoCall
    /\ sc_in = NoScaling
    /\ sc_out = Ok(FInt(1))

Compute(vv, op, var, rv, flags) ==
    CASE op = "logpt"    -> [tags |-> vv, out |-> logpt(vv, var, rv, flags)]
      [] op = "logcdfpt" -> [tags |-> vv, out |-> logcdfpt(vv, var, rv, flags)]
      [] op = "logp"     -> logp(vv, var, rv, flags)
      [] op = "logcdf"   -> logcdf(vv, var, rv, flags)

Call(op, var, rv, flags, next_pc) ==
    LET r == Compute(value_var, op, var, rv, flags)
    IN  /\ value_var' = r.tags
        /\ last' = [op |-> op, var |-> var, rv_values |-> rv, flags |-> flags, out |-> r.out]
        /\ pc' = next_pc
        /\ UNCHANGED <<observations, total_size, sc_in, sc_out>>

LogptCall ==
    /\ pc = "idle"
    /\ \E var \in VarInputs, rv \in RvInputs, flags \in Flags :
          Call("logpt", var, rv, flags, "done")

LogcdfptCall ==
    /\ pc = "idle"
    /\ \E c \in CdfCalls, flags \in CdfFlags :
          Call("logcdfpt", c.var, c.rv, flags, "done")

LogpCall ==
    /\ pc = "idle"
    /\ \E c \in EntryCalls, flags \in Flags :
          Call("logp", c.var, c.rv, flags, "done")

LogcdfCall ==
    /\ pc = "idle"
    /\ \E c \in EntryCalls, flags \in CdfFlags :
          Call("logcdf", c.var, c.rv, flags, "done")

\* the caller makes the same call once more
CallAgain ==
    /\ pc = "done"
    /\ Call(last.op, last.var, last.rv_values, last.flags, "redone")

\* the caller drops the result
Return ==
    /\ pc \in {"done", "redone"}
    /\ pc' = "idle"
    /\ last' = NoCall
    /\ UNCHANGED <<value_var, observations, total_size, sc_in, sc_out>>

Next == LogptCall \/ LogcdfptCall \/ LogpCall \/ LogcdfCall \/ CallAgain \/ Return

Spec == Init /\ [][Next]_vars

----------------------------------------------------------------------------
(* Direct calls of _get_scaling on every total_size, shape up to the bounds*)

MaxTsLen == 3
MaxNdim  == 2
MaxDim   == 3
TsInts   == {2, 6}

TsElems  == {PyInt(k) : k \in TsInts} \cup {PyNone, PyEllipsis, PyStr}
TsInputs == {PyNone, PyFloat} \cup {PyInt(k) : k \in TsInts}
              \cup {PySeq(s) : s \in UNION {[1..k -> TsElems] : k \in 0..MaxTsLen}}
Shapes   == UNION {[1..k -> 1..MaxDim] : k \in 0..MaxNdim}

Pending == [ok |-> FALSE, err |-> "pending"]

ScalingInit ==
    /\ value_var = [n \in Nodes |-> NoTag]
    /\ observations = [n \in Nodes |-> NoTag]
    /\ total_size = [n \in Nodes |-> PyNone]
    /\ pc = "idle"
    /\ last = NoCall
    /\ sc_in \in [ts : TsInputs, shape : Shapes]
    /\ sc_out = Pending

GetScalingCall ==
    /\ sc_out = Pending
    /\ sc_out' = _get_scaling(sc_in.ts, sc_in.shape, Len(sc_in.shape))
    /\ UNCHANGED <<value_var, observations, total_size, pc, last, sc_in>>

ScalingNext == GetScalingCall

SpecScaling == ScalingInit /\ [][ScalingNext]_vars

----------------------------------------------------------------------------
(* Properties of _get_scaling, stated for SpecScaling.                     *)

Returned == sc_out # Pending

IsInt(e) == e.t = "int"

\* the axis of the shape that entry k of a sequence total_size scales
AxisOf(items, shape, k) ==
    IF HasEllipsis(items) /\ k > IndexOfEllipsis(items)
    THEN Len(shape) - Len(items) + k
    ELSE k

RECURSIVE NumProd(_, _)
NumProd(items, k) ==
    IF k > Len(items) THEN 1
    ELSE (IF IsInt(items[k]) THEN items[k].v ELSE 1) * NumProd(items, k + 1)

RECURSIVE DenProd(_, _, _)
DenProd(items, shape, k) ==
    IF k > Len(items) THEN 1
    ELSE (IF IsInt(items[k]) THEN shape[AxisOf(items, shape, k)] ELSE 1)
           * DenProd(items, shape, k + 1)

\* C5: a returned coefficient is 1 for None, T/shape[0] (T for a scalar) for
\* an integer T, and for a sequence the product of t/shape[axis] over its
\* integer entries, entries before the Ellipsis counting axes from the front
\* and entries after it from the back, None entries giving no factor.
C5_ScalingValue ==
    (Returned /\ sc_out.ok) =>
        LET ts == sc_in.ts
            shape == sc_in.shape
            c == sc_out.coef
        IN  /\ ts.t = "none" => c = FInt(1)
            /\ ts.t = "int" =>
                 IF Len(shape) >= 1 THEN c.n * shape[1] = ts.v * c.d
                 ELSE c = FInt(ts.v)
            /\ ts.t = "seq" =>
                 /\ c.n * DenProd(ts.items, shape, 1) = c.d * NumProd(ts.items, 1)
                 /\ c.d > 0 /\ GCD(Abs(c.n), c.d) = 1

C5_Witness ==
    /\ Returned /\ sc_out.ok
    /\ sc_in.ts.t = "seq"
    /\ Len(sc_in.ts.items) = 3
    /\ sc_in.ts.items[1].t = "none"
    /\ sc_in.ts.items[2].t = "ellipsis"
    /\ sc_in.ts.items[3] = PyInt(6)
    /\ sc_in.shape = <<3, 2>>
    /\ sc_out.coef = FInt(3)

NumEllipsis(items) == Cardinality({k \in 1..Len(items) : items[k].t = "ellipsis"})
NumScalings(items) == Cardinality({k \in 1..Len(items) : items[k].t # "ellipsis"})

\* C6: _get_scaling raises exactly when total_size is of another type, or is a
\* sequence with an element that is not an integer, None or Ellipsis, or
\* with more than one Ellipsis, or with more entries beside the Ellipsis
\* than ndim; otherwise it returns a coefficient.
C6_ScalingErrors ==
    Returned =>
        LET ts == sc_in.ts
            ndim == Len(sc_in.shape)
            bad == \/ ts.t \notin {"none", "int", "seq"}
                   \/ /\ ts.t = "seq"
                      /\ \/ \E k \in 1..Len(ts.items) :
                                ts.items[k].t \notin {"int", "none", "ellipsis"}
                         \/ NumEllipsis(ts.items) > 1
                         \/ NumScalings(ts.items) > ndim
        IN  (~sc_out.ok) <=> bad

C6_Witness ==
    /\ Returned /\ ~sc_out.ok
    /\ sc_in.ts.t = "seq"
    /\ NumEllipsis(sc_in.ts.items) = 1
    /\ \A k \in 1..Len(sc_in.ts.items) : sc_in.ts.items[k].t \in {"int", "none", "ellipsis"}
    /\ NumScalings(sc_in.ts.items) = Len(sc_in.shape) + 1

----------------------------------------------------------------------------
(* Properties of logpt, stated for Spec.                                   *)

Done == pc \in {"done", "redone"}

\* a logpt call (direct or through logp) has returned without raising
LogptRan == Done /\ last.op \in {"logpt", "logp"} /\ last.out.err = ""

Targets   == IF last.op = "logpt" THEN AsList(last.var) ELSE <<last.var>>
TargetSet == {Targets[i] : i \in 1..Len(Targets)}

\* the value map the caller passed, a single value standing for {target: value}
Explicit ==
    LET rv == last.rv_values
    IN  IF rv.t = "map" THEN rv.m
        ELSE IF rv.t = "value" /\ Len(Targets) = 1
             THEN (Targets[1] :> (IF rv.v \in RawValues THEN "c" \o rv.v ELSE rv.v))
        ELSE EmptyDict

\* the value tagged on a node, observations first
Tagged(n) == IF observations[n] # NoTag THEN observations[n] ELSE value_var[n]

\* P is a random variable among the (nested) parameters of a requested
\* random variable, and is not requested itself
NestedParam(p) ==
    /\ p \in RVNodes /\ p \notin TargetSet
    /\ \E t \in TargetSet \cap RVNodes : p \in Ancestors({t})

\* C1 as stated: a nested parameter that is not a target never has a term for
\* its value among the retained terms, though its pair is in the value map.
C1_Original ==
    LogptRan =>
        \A p \in RVNodes :
            (NestedParam(p) /\ Tagged(p) # NoTag /\ p \in DOMAIN last.out.tmp_rvs_to_values)
                => last.out.tmp_rvs_to_values[p] \notin DOMAIN last.out.logp_var_dict

\* C1 amended: the same, for a nested parameter that the requested value map
\* (the caller's map or, without one, the tagged value of the last random
\* target) does not name and whose value is not requested for another variable.
C1_Filtering ==
    LogptRan =>
        \A p \in RVNodes :
            (/\ NestedParam(p) /\ Tagged(p) # NoTag
             /\ p \in DOMAIN last.out.tmp_rvs_to_values
             /\ p \notin DOMAIN Explicit
             /\ \A k \in DOMAIN Explicit : Explicit[k] # last.out.tmp_rvs_to_values[p]
             /\ \A t \in TargetSet : Tagged(t) # last.out.tmp_rvs_to_values[p])
                => last.out.tmp_rvs_to_values[p] \notin DOMAIN last.out.logp_var_dict

C1_Witness ==
    /\ LogptRan
    /\ last.op = "logpt" /\ last.var = Var("Y")
    /\ last.rv_values = Map(("Y" :> "w1"))
    /\ value_var["P"] = "vP"
    /\ NestedParam("P")
    /\ last.out.tmp_rvs_to_values["P"] = "vP"
    /\ "vP" \in last.out.temp_keys
    /\ DOMAIN last.out.logp_var_dict = {"w1"}

\* C2: without a value map, every target of a list of tagged random
\* variables contributes the term of its tagged value to the result.
C2_AllTargetsSummed ==
    (/\ LogptRan /\ last.op = "logpt"
     /\ last.rv_values = NoValues
     /\ Len(Targets) >= 2
     /\ \A t \in TargetSet : t \in RVNodes /\ Tagged(t) # NoTag)
        => \A t \in TargetSet : Tagged(t) \in DOMAIN last.out.logp_var_dict

\* every value variable and node, in a fixed order
AllKeys == <<"vP", "vY", "vZ", "oZ", "w1", "c2.0", "t2.0", "P", "Y", "Z", "D">>

\* entry i of a term, a scalar giving the same entry everywhere
Entry(x, i) == IF x.nd = 0 THEN x.data[1] ELSE x.data[i]

RECURSIVE TotalOf(_, _)
TotalOf(d, k) ==
    IF k > Len(AllKeys) THEN FInt(0)
    ELSE IF AllKeys[k] \in DOMAIN d
         THEN FAdd(FSumSeq(d[AllKeys[k]].term.data), TotalOf(d, k + 1))
         ELSE TotalOf(d, k + 1)

RECURSIVE EntryTotalOf(_, _, _)
EntryTotalOf(d, i, k) ==
    IF k > Len(AllKeys) THEN FInt(0)
    ELSE IF AllKeys[k] \in DOMAIN d
         THEN FAdd(Entry(d[AllKeys[k]].term, i), EntryTotalOf(d, i, k + 1))
         ELSE EntryTotalOf(d, i, k + 1)

\* C3: one retained term d gives sum(d), or d itself without sum; several
\* give the sum of their sums, or without sum their elementwise addition;
\* every retained term counts exactly once.
C3_Reduction ==
    (LogptRan /\ ~last.out.is_none) =>
        LET d == last.out.logp_var_dict
            r == last.out.logp_var.term
        IN  IF last.flags.sum
            THEN r = Tensor(0, <<TotalOf(d, 1)>>)
            ELSE IF Cardinality(DOMAIN d) = 1
                 THEN \E v \in DOMAIN d : r = d[v].term
                 ELSE /\ r.nd = 1 /\ Len(r.data) = 2
                      /\ \A i \in 1..2 : r.data[i] = EntryTotalOf(d, i, 1)

C3_Witness ==
    /\ LogptRan /\ ~last.out.is_none
    /\ DOMAIN last.out.logp_var_dict = {"vP", "vY", "w1"}
    /\ ~last.flags.sum
    /\ last.flags.scaling
    /\ last.out.logp_var.term.data[1] # last.out.logp_var.term.data[2]

\* C4: with scaling, the retained term of every requested (target, value)
\* pair is the density term times scale(target.total_size, value.shape,
\* value.ndim); without scaling the terms are the density terms.
C4_ScalingPerValue ==
    LogptRan =>
        \A t \in TargetSet :
            (t \in DOMAIN last.out.rv_values
               /\ last.out.rv_values[t] \in DOMAIN last.out.logp_var_dict) =>
                LET v == last.out.rv_values[t]
                    c == _get_scaling(total_size[t], ShapeOf(v), NdimOf(v))
                    dens == Density(v, last.flags.jacobian /\ v \in DOMAIN last.out.transform_map)
                IN  IF last.flags.scaling
                    THEN c.ok => last.out.logp_var_dict[v].term = at_mul(dens, c.coef)
                    ELSE last.out.logp_var_dict[v].term = dens

----------------------------------------------------------------------------
(* Properties of the entry points and of the value and transform maps.     *)

\* one step that is a logp or logcdf call, and one that repeats a logp call
C7_Step ==
    /\ (pc' \in {"done", "redone"} /\ last'.op \in {"logp", "logcdf"}) =>
          LET n   == last'.var
              rv  == last'.rv_values
              has == rv.t = "value" \/ (rv.t = "map" /\ n \in DOMAIN rv.m)
              supplied == IF rv.t = "value" THEN rv.v ELSE rv.m[n]
          IN  /\ (value_var[n] = NoTag /\ has) =>
                    value_var'[n] = (IF supplied \in RawValues THEN "t" \o supplied
                                     ELSE supplied)
              /\ value_var[n] # NoTag => value_var'[n] = value_var[n]
              /\ \A m \in Nodes \ {n} : value_var'[m] = value_var[m]
    /\ (pc = "done" /\ pc' = "redone" /\ last.op = "logp") =>
          /\ value_var' = value_var
          /\ last'.out = last.out

\* C7: a logp or logcdf call on a target without a value_var tag sets the tag
\* to the value supplied for the target (as a tensor variable, a Python
\* number as the constant of it); on a tagged target it leaves the tag as it
\* is; no other tag changes; and logp called again with the same arguments
\* leaves the tags alone and returns the same output.
C7_IdempotentTagging == [][C7_Step]_vars

C7_Witness ==
    /\ pc = "redone" /\ last.op = "logp"
    /\ last.var = "Y" /\ last.rv_values = Value("w1")
    /\ value_var["Y"] = "vY"
    /\ last.out.err = "" /\ ~last.out.is_none

\* a logcdfpt call (direct or through logcdf) has returned without raising
LogcdfptRan == Done /\ last.op \in {"logcdfpt", "logcdf"} /\ last.out.err = ""

ReachTagged == {n \in Ancestors(TargetSet) : Tagged(n) # NoTag}

\* the value map holds the caller's entries unchanged
C9_Explicit ==
    \A k \in DOMAIN Explicit :
        k \in DOMAIN last.out.tmp_rvs_to_values /\ last.out.tmp_rvs_to_values[k] = Explicit[k]

\* and an entry for every tagged node the targets depend on
C9_Discovered ==
    \A n \in ReachTagged :
        /\ n \in DOMAIN last.out.tmp_rvs_to_values
        /\ last.out.tmp_rvs_to_values[n] =
              IF n \in DOMAIN Explicit THEN Explicit[n]
              ELSE IF observations[n] # NoTag THEN observations[n] ELSE value_var[n]

\* C9 as stated: the caller's entries, the tagged nodes, and nothing else.
C9_Original ==
    LogptRan =>
        /\ C9_Explicit
        /\ C9_Discovered
        /\ DOMAIN last.out.tmp_rvs_to_values \subseteq DOMAIN Explicit \cup ReachTagged

\* the last random variable of the target list
LastRvTarget == {Targets[i] : i \in {j \in 1..Len(Targets) :
                    Targets[j] \in RVNodes /\ \A k \in (j + 1)..Len(Targets) : Targets[k] \notin RVNodes}}

C9_State ==
    LogptRan =>
        /\ C9_Explicit
        /\ C9_Discovered
        /\ \A k \in DOMAIN last.out.tmp_rvs_to_values :
              \/ k \in DOMAIN Explicit \cup ReachTagged
              \/ /\ last.rv_values = NoValues
                 /\ k \in LastRvTarget /\ Tagged(k) = NoTag
                 /\ last.out.tmp_rvs_to_values[k] = k

C9_Rerun ==
    (pc = "done" /\ pc' = "redone" /\ last.op = "logpt" /\ last.out.err = "") =>
        /\ last'.out.tmp_rvs_to_values = last.out.tmp_rvs_to_values
        /\ last'.out.transform_map = last.out.transform_map
        /\ value_var' = value_var

\* C9 amended: as stated, except that without a value map the last random
\* target, when it carries no tag, is mapped to itself; running the call
\* again on the unchanged graph gives the same value and transform maps.
C9_ValueMap == [](C9_State) /\ [][C9_Rerun]_vars

C9_Witness ==
    /\ LogptRan /\ pc = "redone" /\ last.op = "logpt"
    /\ last.var = Var("D")
    /\ last.rv_values = Map(("Y" :> "w1"))
    /\ value_var["Y"] = "vY" /\ value_var["P"] = "vP"
    /\ observations["Z"] = "oZ" /\ value_var["Z"] = "w1"
    /\ last.out.tmp_rvs_to_values = ("P" :> "vP") @@ ("Y" :> "w1") @@ ("Z" :> "oZ")
    /\ last.out.transform_map = ("w1" :> "logodds") @@ ("vP" :> "log")

\* C10 as stated: a key of the transform map is a value of the value map
\* that carries a transform itself.
C10_Original ==
    LogptRan =>
        /\ ~last.flags.transformed => DOMAIN last.out.transform_map = {}
        /\ \A k \in DOMAIN last.out.transform_map :
              /\ k \in Range(last.out.tmp_rvs_to_values)
              /\ TransformOf(k) # NoTransform

\* C10 amended: the transform map is empty without transformed; a key is the
\* value that the value map gives some tagged node whose TAGGED value
\* carries a transform, and it is mapped to that transform.
C10_TransformMap ==
    LogptRan =>
        /\ ~last.flags.transformed => DOMAIN last.out.transform_map = {}
        /\ \A k \in DOMAIN last.out.transform_map :
              \E n \in DOMAIN last.out.tmp_rvs_to_values :
                  /\ last.out.tmp_rvs_to_values[n] = k
                  /\ Tagged(n) # NoTag
                  /\ TransformOf(Tagged(n)) # NoTransform
                  /\ last.out.transform_map[k] = TransformOf(Tagged(n))

C10_Witness ==
    /\ LogptRan /\ last.flags.transformed
    /\ last.rv_values = Map(("Y" :> "w1"))
    /\ value_var["Y"] = "vY"
    /\ TransformOf("w1") = NoTransform
    /\ "w1" \in DOMAIN last.out.transform_map
    /\ last.out.transform_map["w1"] = "logodds"

====
